---- MODULE Spec2Model ----
(***************************************************************************)
(* amber: the staging log (storage.rs), the summarization workflow         *)
(* (summarizer/mod.rs, summarizer/daily.rs), the scheduler loop            *)
(* (summarizer/mod.rs run_scheduler) and the ingestion receive loop        *)
(* (watchers/mod.rs run_all).                                              *)
(*                                                                         *)
(* Text is a sequence of characters.  The character NL is the line feed;   *)
(* every other character is a positive number.  The k-th event received    *)
(* by the ingestion task serialises to the one-character line <<k>>.       *)
(***************************************************************************)
EXTENDS Integers, Sequences, FiniteSets, TLC

\* ---------------------------------------------------------------- bounds
\* calendar dates 1..MaxDate
MaxDate == 2
\* events received by the ingestion task
MaxEvents == 2
\* manual trigger signals sent
MaxManual == 2
\* summarize_day calls started by the scheduler
MaxRuns == 3
\* entries appended by direct calls of append_staging_event
MaxAppends == 3
\* commit hashes 1..MaxHash
MaxHash == 2
\* commits returned by one history query (the -20 of git log)
MaxFetch == 2
\* consumer tasks spawned by GitWatcher::start
MaxStarts == 2
\* batches sent by the debouncer callbacks
MaxBatches == 2
\* directories created below the watch path
MaxDirs == 4
\* config.sources.git.scan_depth is 0..MaxDepth
MaxDepth == 2
\* events of one debounced batch
MaxBatchLen == 2
\* HTTP requests sent by direct calls of complete()
MaxRequests == 3

\* ------------------------------------------------------- program constants
\* config.schedule.daily_hour (default)
DailyHour == 22

NL == 0
Dates == 1..MaxDate
\* String::new(): equal to no formatted date
NoDate == 0
Hours == {DailyHour - 1, DailyHour}
NoteTexts == {"n1", "n2"}

VARIABLES
    clock,            \* Local::now(): [date, hour]
    staging,          \* ~/.amber/staging/<date>.jsonl : [exists, content]
    notes,            \* ~/.amber/daily/<date>.md      : [exists, content]
    last_daily_date,  \* run_scheduler: last_daily_date
    manual_rx,        \* run_scheduler: signals queued in the manual channel
    sched_pc,         \* run_scheduler: "select" (waiting) or "await" (in a branch)
    runs,             \* summarize_day calls in flight (a sequence of frames)
    nextEvent,        \* run_all: number of the next event received from rx
    hist,             \* history, read by no action's guard or effect on the program
    store_ret,        \* storage.rs called directly: what the last call returned
    store_log,        \* history: per date, the entries appended since the file was
                      \* last absent or cleared
    running,          \* GitWatcher.running (the Arc<AtomicBool>)
    debouncer,        \* GitWatcher._debouncer: NoTask (None) or the number of
                      \* the consumer task its callback sends to
    tasks,            \* the consumer tasks spawned by start(), in spawn order
    last_diff,        \* history: the number of batches sent, and the passes
                      \* of the last turn of a consumer loop that made any
    tree,             \* the directories below the watch path
    found,            \* what the last discover_repos call was given and returned
    mapped,           \* the last batch and the repos it was mapped to
    env,              \* whether the variable named by api_key_env is set
    sent,             \* number of HTTP requests sent by complete()
    reply,            \* the last complete() call: what it met and returned
    app_state,        \* the managed Mutex<AppState>
    status            \* what the last get_status call returned

\* the scheduler, the summarizer, the receive loop and the files
schedVars == <<clock, staging, notes, last_daily_date, manual_rx, sched_pc,
               runs, nextEvent, hist>>
storeVars == <<store_ret, store_log>>
gitVars == <<running, debouncer, tasks, last_diff>>
walkVars == <<tree, found, mapped>>
provVars == <<env, sent, reply>>
appVars == <<app_state, status>>

\* the variables outside the scheduler, the summarizer and the receive loop
others == <<storeVars, gitVars, walkVars, provVars, appVars>>

vars == <<clock, staging, notes, last_daily_date, manual_rx, sched_pc, runs,
          nextEvent, hist, others>>

\* ------------------------------------------------------------ text helpers
RECURSIVE LinesFrom(_, _)
LinesFrom(s, cur) ==
    IF s = <<>> THEN (IF cur = <<>> THEN <<>> ELSE <<cur>>)
    ELSE IF Head(s) = NL THEN <<cur>> \o LinesFrom(Tail(s), <<>>)
    ELSE LinesFrom(Tail(s), Append(cur, Head(s)))

\* str::lines(): split at line feeds, the final line feed is optional
str_lines(s) == LinesFrom(s, <<>>)

\* variant: the entries concatenated with no separator
RECURSIVE JoinNoSep(_)
JoinNoSep(events) ==
    IF events = <<>> THEN <<>> ELSE Head(events) \o JoinNoSep(Tail(events))

\* events.join("\n")
RECURSIVE join(_)
join(events) ==
    IF events = <<>> THEN <<>>
    ELSE IF Len(events) = 1 THEN Head(events)
    ELSE Head(events) \o <<NL>> \o join(Tail(events))

\* serde_json::to_string(&event): one line, never empty
to_string(k) == <<k>>

RemoveAt(s, i) == SubSeq(s, 1, i - 1) \o SubSeq(s, i + 1, Len(s))

IsPrefix(s, t) == Len(s) <= Len(t) /\ SubSeq(t, 1, Len(s)) = s

Range(s) == {s[i] : i \in 1..Len(s)}

\* ----------------------------------------------------------------- storage
NoFile == [exists |-> FALSE, content |-> <<>>]
NoNote == [exists |-> FALSE, content |-> ""]

\* variant: the file opened without append(true), so a write replaces it
append_truncating(file, event) ==
    [exists |-> TRUE, content |-> event \o <<NL>>]

\* append_staging_event: create(true).append(true), write "<event>\n"
append_staging_event(file, event) ==
    [exists |-> TRUE, content |-> file.content \o event \o <<NL>>]

\* variant: the content returned whole, not split into lines
read_unsplit(file) ==
    IF file.exists THEN <<file.content>> ELSE <<>>

\* read_staging_events, the Ok results: the non-empty lines, or none when
\* the file is absent
read_staging_events(file) ==
    IF file.exists
    THEN SelectSeq(str_lines(file.content), LAMBDA l : l # <<>>)
    ELSE <<>>

\* variant: NotFound is returned as an error like any other
read_result_strict(file, fault) ==
    IF fault \/ ~file.exists
    THEN [ok |-> FALSE, value |-> <<>>]
    ELSE [ok |-> TRUE, value |-> read_staging_events(file)]

\* read_staging_events, the Result: fault is an I/O error other than NotFound
read_result(file, fault) ==
    IF fault
    THEN [ok |-> FALSE, value |-> <<>>]
    ELSE [ok |-> TRUE, value |-> read_staging_events(file)]

\* variant: Ok is returned and the file is left in place
clear_keeping(file) == file

\* clear_staging, the Ok results: the file is removed, absent is not an error
clear_staging(file) == NoFile

\* clear_staging, the Result: fault is an I/O error other than NotFound
clear_result(file, fault) ==
    IF fault
    THEN [ok |-> FALSE, file |-> file]
    ELSE [ok |-> TRUE, file |-> clear_staging(file)]

\* variant: create_new(true), a note that exists is not replaced
write_keeping_first(old, content) ==
    IF old.exists THEN old ELSE [exists |-> TRUE, content |-> content]

\* write_daily_note: tokio::fs::write replaces the whole file
write_daily_note(old, content) == [exists |-> TRUE, content |-> content]

\* what a failed tokio::fs::write can leave: the old file, or a file that
\* was created or truncated and not filled
FailedWriteResults(old) == {old, [exists |-> TRUE, content |-> ""]}

\* ------------------------------------------------------------ summarize_day
\* DailySummarizer::generate: the user message given to the provider
UserMessage(date, events) == [date |-> date, events_text |-> join(events)]

\* variant: no early return on an empty list
AfterReadNoReturn(events) == "generate"

\* lines 67-71: nothing staged returns Ok at once
AfterRead(events) == IF events = <<>> THEN "ok" ELSE "generate"

\* variant: the provider's error is not propagated
AfterGenerateIgnoreErr(ok) == "write"

\* line 73: generate(..).await?
AfterGenerate(ok) == IF ok THEN "write" ELSE "err"

\* variant: the write's error is not propagated
AfterWriteIgnoreErr(ok) == "clear"

\* line 74: write_daily_note(..).await?
AfterWrite(ok) == IF ok THEN "clear" ELSE "err"

\* line 75: clear_staging(..).await?
AfterClear(ok) == IF ok THEN "ok" ELSE "err"

\* a call of summarize_day(date); the fields after note are history
NewRun(date, trigger) ==
    [pc |-> "read", date |-> date, trigger |-> trigger,
     events |-> <<>>, note |-> "",
     staged0 |-> <<>>, note0 |-> notes[date],
     calls |-> 0, sent |-> <<>>, wrote |-> FALSE, cleared |-> FALSE,
     failedAt |-> "none", raced |-> FALSE, second |-> FALSE]

InWindow(r) == r.pc \in {"generate", "write", "clear"}
PastRead(r) == r.pc # "read"

\* ---------------------------------------------------------------- scheduler
\* variant: the hour is tested alone
ClockDueNoDedup(hour, last, today) == hour = DailyHour

\* line 46: now.hour() == config.schedule.daily_hour && last_daily_date != today
ClockDue(hour, last, today) == hour = DailyHour /\ last # today

\* variant: last_daily_date is not assigned
LastDailyNotSet(last, today) == last

\* line 48: last_daily_date.clone_from(&today)
LastDailyOnClock(last, today) == today

\* variant: the manual branch shares the clock branch's date test
ManualDueDedup(last, today) == last # today

\* lines 54-57: the manual branch has no condition
ManualDue(last, today) == TRUE

\* variant: the call is given the earliest date that has a staging file
OldestStagedDate(today) ==
    IF \E d \in Dates : staging[d].exists
    THEN CHOOSE d \in Dates :
           staging[d].exists /\ \A e \in Dates : staging[e].exists => d <= e
    ELSE today

\* lines 49, 57: summarize_day(&today, &config), today formatted from the
\* Local::now() of the branch
SummarizedDate(today) == today

\* variant: summarize_day is spawned as a task of its own and not awaited
PcSpawned == "select"

\* lines 49, 57: summarize_day(..).await inside the select! branch
PcWhileSummarizing == "await"

\* no call of the storage functions from outside the tasks has been made
NoReply == [op |-> "none", date |-> NoDate, ok |-> TRUE, value |-> <<>>,
            expected |-> <<>>, existed |-> FALSE, fault |-> FALSE]
StoreIdle ==
    /\ store_ret = NoReply
    /\ store_log = [d \in Dates |-> <<>>]

\* the scheduler task just spawned, nothing staged, no note written
SchedIdle ==
    /\ clock = [date |-> 1, hour |-> DailyHour - 1]
    /\ staging = [d \in Dates |-> NoFile]
    /\ notes = [d \in Dates |-> NoNote]
    /\ last_daily_date = NoDate
    /\ manual_rx = 0
    /\ sched_pc = "select"
    /\ runs = <<>>
    /\ nextEvent = 1
    /\ hist = [staged |-> [d \in Dates |-> <<>>],
               fate |-> [k \in 1..MaxEvents |-> "none"],
               clockStarts |-> [d \in Dates |-> 0],
               hourMatched |-> [d \in Dates |-> FALSE],
               manualSent |-> 0, manualRuns |-> 0, started |-> 0,
               cleanDate |-> NoDate,
               wroteNote |-> [d \in Dates |-> ""],
               goodNote |-> [d \in Dates |-> ""]]

NoTask == 0
NoHash == 0
NoDiff == [batches |-> 0, task |-> NoTask, passes |-> <<>>]

\* GitWatcher::new: running false, no debouncer, no task spawned
GitIdle ==
    /\ running = FALSE
    /\ debouncer = NoTask
    /\ tasks = <<>>
    /\ last_diff = NoDiff

NoDiscovery == [done |-> FALSE, watch_paths |-> <<>>, scan_depth |-> 0,
                order |-> <<>>, unreadable |-> {}, repos |-> <<>>]
NoMapping == [done |-> FALSE, events |-> <<>>, changed_repos |-> <<>>]

\* an empty watch directory, discover_repos not called yet
WalkIdle ==
    /\ tree = {<<>>}
    /\ found = NoDiscovery
    /\ mapped = NoMapping

NoCall == [called |-> FALSE, key |-> FALSE, transport |-> "none",
           status |-> 0, body |-> <<>>, requests |-> 0,
           ok |-> FALSE, text |-> "", error |-> "none"]

\* no complete() call made directly, the key variable not set
ProvIdle ==
    /\ env = FALSE
    /\ sent = 0
    /\ reply = NoCall

NoStatus == [called |-> FALSE, watchers_running |-> FALSE,
             buffered_events |-> 0, last_summarized |-> NoDate]

\* lib.rs 19-26 AppState::new; get_status not called yet
AppIdle ==
    /\ app_state = [watchers_running |-> FALSE, buffered_events |-> 0,
                    last_summarized |-> NoDate]
    /\ status = NoStatus

Init ==
    /\ StoreIdle
    /\ GitIdle
    /\ WalkIdle
    /\ ProvIdle
    /\ AppIdle
    /\ clock = [date |-> 1, hour |-> DailyHour - 1]
    /\ \E today \in {NoFile, [exists |-> TRUE, content |-> <<NL>>]} :
         staging = [d \in Dates |-> IF d = 1 THEN today ELSE NoFile]
    /\ notes = [d \in Dates |-> NoNote]
    /\ last_daily_date = NoDate
    /\ manual_rx = 0
    /\ sched_pc = "select"
    /\ runs = <<>>
    /\ nextEvent = 1
    /\ hist = [staged |-> [d \in Dates |-> <<>>],
               fate |-> [k \in 1..MaxEvents |-> "none"],
               clockStarts |-> [d \in Dates |-> 0],
               hourMatched |-> [d \in Dates |-> FALSE],
               manualSent |-> 0, manualRuns |-> 0, started |-> 0,
               cleanDate |-> NoDate,
               wroteNote |-> [d \in Dates |-> ""],
               goodNote |-> [d \in Dates |-> ""]]

\* the wall clock moves forward
AdvanceClock ==
    /\ \E d \in Dates, h \in Hours :
         /\ d > clock.date \/ (d = clock.date /\ h > clock.hour)
         /\ clock' = [date |-> d, hour |-> h]
    /\ UNCHANGED <<staging, notes, last_daily_date, manual_rx, sched_pc, runs,
                   nextEvent, hist>>
    /\ UNCHANGED others

\* commands.rs trigger_summarize and the listener of run_scheduler:
\* app.emit("trigger-summarize") -> manual_tx.send(())
trigger_summarize ==
    /\ hist.manualSent < MaxManual
    /\ manual_rx' = manual_rx + 1
    /\ hist' = [hist EXCEPT !.manualSent = @ + 1]
    /\ UNCHANGED <<clock, staging, notes, last_daily_date, sched_pc, runs,
                   nextEvent>>
    /\ UNCHANGED others

\* select! branch ingest_timer.tick(): logs only
IngestTick ==
    /\ sched_pc = "select"
    /\ UNCHANGED vars

\* select! branch check_timer.tick()
CheckTick ==
    /\ sched_pc = "select"
    /\ LET today == clock.date
           due == ClockDue(clock.hour, last_daily_date, today)
           matched == clock.hour = DailyHour
       IN  /\ due => hist.started < MaxRuns
           /\ hist' = [hist EXCEPT
                         !.hourMatched[today] = @ \/ matched,
                         !.clockStarts[today] = IF due THEN @ + 1 ELSE @,
                         !.started = IF due THEN @ + 1 ELSE @]
           /\ IF due
              THEN /\ last_daily_date' = LastDailyOnClock(last_daily_date, today)
                   /\ runs' = Append(runs, NewRun(SummarizedDate(today), "clock"))
                   /\ sched_pc' = PcWhileSummarizing
              ELSE UNCHANGED <<last_daily_date, runs, sched_pc>>
    /\ UNCHANGED <<clock, staging, notes, manual_rx, nextEvent>>
    /\ UNCHANGED others

\* select! branch manual_rx.recv()
ManualRecv ==
    /\ sched_pc = "select"
    /\ manual_rx > 0
    /\ hist.started < MaxRuns
    /\ manual_rx' = manual_rx - 1
    /\ IF ManualDue(last_daily_date, clock.date)
       THEN /\ runs' = Append(runs,
                                NewRun(SummarizedDate(clock.date), "manual"))
            /\ sched_pc' = PcWhileSummarizing
            /\ hist' = [hist EXCEPT !.manualRuns = @ + 1, !.started = @ + 1]
       ELSE UNCHANGED <<runs, sched_pc, hist>>
    /\ UNCHANGED <<clock, staging, notes, last_daily_date, nextEvent>>
    /\ UNCHANGED others

\* watchers/mod.rs run_all, one iteration of the receive loop: the next event
\* is serialised and appended to the staging file of the current date.
\* Events are numbered as they are stored: an event whose append fails is
\* logged and dropped, and leaves no trace in the state.
RecvLoop ==
    /\ nextEvent <= MaxEvents
    /\ LET date == clock.date
           json == to_string(nextEvent)
       IN  \E ok \in BOOLEAN :
             IF ok
             THEN /\ nextEvent' = nextEvent + 1
                  /\ staging' = [staging EXCEPT
                                   ![date] = append_staging_event(@, json)]
                  /\ runs' = [i \in 1..Len(runs) |->
                                IF runs[i].date = date /\ PastRead(runs[i])
                                THEN [runs[i] EXCEPT !.raced = TRUE]
                                ELSE runs[i]]
                  /\ hist' = [hist EXCEPT
                                !.staged[date] = Append(@, json),
                                !.fate[nextEvent] =
                                    IF \E i \in 1..Len(runs) :
                                         runs[i].date = date /\ InWindow(runs[i])
                                    THEN "raced" ELSE @,
                                !.cleanDate = IF @ = date THEN NoDate ELSE @]
             ELSE \* error!("Failed to append staging event")
                  UNCHANGED <<nextEvent, staging, runs, hist>>
    /\ UNCHANGED <<clock, notes, last_daily_date, manual_rx, sched_pc>>
    /\ UNCHANGED others

\* summarize_day line 67: storage::read_staging_events(date).await?
SumRead(i) ==
    /\ runs[i].pc = "read"
    /\ LET r == runs[i]
           events == read_staging_events(staging[r.date])
           seen == [r EXCEPT !.staged0 = hist.staged[r.date],
                             !.second = hist.cleanDate = r.date]
       IN  \E ok \in BOOLEAN :
             runs' = [runs EXCEPT ![i] =
                        IF ok
                        THEN [seen EXCEPT !.events = events,
                                          !.pc = AfterRead(events)]
                        ELSE [seen EXCEPT !.failedAt = "read", !.pc = "err"]]
    /\ UNCHANGED <<clock, staging, notes, last_daily_date, manual_rx, sched_pc,
                   nextEvent, hist>>
    /\ UNCHANGED others

\* summarize_day line 73: DailySummarizer::generate(date, events, ..).await?
SumGenerate(i) ==
    /\ runs[i].pc = "generate"
    /\ LET r == runs[i]
           called == [r EXCEPT !.calls = @ + 1,
                               !.sent = Append(@, UserMessage(r.date, r.events))]
       IN  \/ \E text \in NoteTexts :
                runs' = [runs EXCEPT ![i] =
                           [called EXCEPT !.note = text,
                                          !.pc = AfterGenerate(TRUE)]]
           \/ runs' = [runs EXCEPT ![i] =
                         [called EXCEPT !.failedAt = "provider",
                                        !.pc = AfterGenerate(FALSE)]]
    /\ hist' = [hist EXCEPT
                  !.fate = [k \in 1..MaxEvents |->
                              IF to_string(k) \in Range(runs[i].events)
                              THEN "given" ELSE @[k]]]
    /\ UNCHANGED <<clock, staging, notes, last_daily_date, manual_rx, sched_pc,
                   nextEvent>>
    /\ UNCHANGED others

\* summarize_day line 74: storage::write_daily_note(date, &note).await?
SumWrite(i) ==
    /\ runs[i].pc = "write"
    /\ LET r == runs[i]
       IN  \/ /\ notes' = [notes EXCEPT
                             ![r.date] = write_daily_note(@, r.note)]
              /\ runs' = [runs EXCEPT ![i] =
                            [r EXCEPT !.wrote = TRUE, !.pc = AfterWrite(TRUE)]]
              /\ hist' = [hist EXCEPT !.wroteNote[r.date] = r.note]
           \/ /\ \E left \in FailedWriteResults(notes[r.date]) :
                    notes' = [notes EXCEPT ![r.date] = left]
              /\ runs' = [runs EXCEPT ![i] =
                            [r EXCEPT !.failedAt = "write",
                                      !.pc = AfterWrite(FALSE)]]
              /\ UNCHANGED hist
    /\ UNCHANGED <<clock, staging, last_daily_date, manual_rx, sched_pc,
                   nextEvent>>
    /\ UNCHANGED others

\* summarize_day line 75: storage::clear_staging(date).await?
SumClear(i) ==
    /\ runs[i].pc = "clear"
    /\ LET r == runs[i]
       IN  \/ /\ staging' = [staging EXCEPT ![r.date] = clear_staging(@)]
              /\ runs' = [runs EXCEPT ![i] =
                            [r EXCEPT !.cleared = TRUE, !.pc = AfterClear(TRUE)]]
              /\ hist' = [hist EXCEPT !.staged[r.date] = <<>>,
                                      !.goodNote[r.date] = r.note]
           \/ /\ runs' = [runs EXCEPT ![i] =
                            [r EXCEPT !.failedAt = "clear",
                                      !.pc = AfterClear(FALSE)]]
              /\ UNCHANGED <<staging, hist>>
    /\ UNCHANGED <<clock, notes, last_daily_date, manual_rx, sched_pc, nextEvent>>
    /\ UNCHANGED others

\* variant: an Err leaves the loop (the branch uses ? or breaks)
PcAfterRunErrEnds(result) == IF result = "err" THEN "ended" ELSE "select"

\* lines 49-51, 57-59: Ok falls through, Err is logged by error!; the branch
\* ends and the loop goes back to select!
PcAfterRun(result) == "select"

\* summarize_day returns to the select! branch, which logs an Err; the loop
\* goes back to select!
SumReturn(i) ==
    /\ runs[i].pc \in {"ok", "err"}
    /\ LET r == runs[i]
       IN  hist' = [hist EXCEPT
                      !.cleanDate =
                          IF r.pc = "ok" /\ r.staged0 # <<>> /\ ~r.raced
                          THEN r.date ELSE NoDate]
    /\ runs' = RemoveAt(runs, i)
    /\ sched_pc' = PcAfterRun(runs[i].pc)
    /\ UNCHANGED <<clock, staging, notes, last_daily_date, manual_rx, nextEvent>>
    /\ UNCHANGED others

Next ==
    \/ AdvanceClock
    \/ trigger_summarize
    \/ IngestTick
    \/ CheckTick
    \/ ManualRecv
    \/ RecvLoop
    \/ \E i \in 1..Len(runs) : SumRead(i)
    \/ \E i \in 1..Len(runs) : SumGenerate(i)
    \/ \E i \in 1..Len(runs) : SumWrite(i)
    \/ \E i \in 1..Len(runs) : SumClear(i)
    \/ \E i \in 1..Len(runs) : SumReturn(i)

Spec == Init /\ [][Next]_vars

\* a step of a summarize_day call in flight
SummarizeStep ==
    \E i \in 1..Len(runs) :
        SumRead(i) \/ SumGenerate(i) \/ SumWrite(i) \/ SumClear(i) \/ SumReturn(i)

\* Every summarize_day call runs to its return (its awaits complete), and
\* select! takes the manual branch when it stays ready: select! polls its
\* branches in random order, and recv() is ready while a signal is queued.
FairSpec == Spec /\ WF_vars(SummarizeStep) /\ WF_vars(ManualRecv)

\* ------------------------------------------------------------------ claims
Run(i) == runs[i]
Running == 1..Len(runs)
Stored == 1..(nextEvent - 1)
InStaging(k) ==
    \E d \in Dates : to_string(k) \in Range(read_staging_events(staging[d]))

\* the entries of a list, one per line, a line feed between two entries
RECURSIVE ExpectedText(_)
ExpectedText(entries) ==
    IF Len(entries) = 0 THEN <<>>
    ELSE IF Len(entries) = 1 THEN entries[1]
    ELSE ExpectedText(SubSeq(entries, 1, Len(entries) - 1))
           \o <<NL>> \o entries[Len(entries)]

\* C1: the staging log of a date is cleared only after the note of the date
\* was written successfully in the same summarize_day run: a run that has
\* called clear has written the note, and whenever a staging file disappears
\* a run of that date is at its clear step with the note on disk.
C1_ClearOnlyAfterWrite ==
    /\ [](\A i \in Running : Run(i).cleared => Run(i).wrote)
    /\ [][\A d \in Dates :
            (staging[d].exists /\ ~staging'[d].exists) =>
                \E i \in Running :
                    /\ Run(i).pc = "clear" /\ Run(i).date = d /\ Run(i).wrote
                    /\ notes[d] = [exists |-> TRUE, content |-> Run(i).note]]_vars

C1_Witness ==
    \E i \in Running :
        Run(i).cleared /\ Run(i).staged0 # <<>> /\ ~staging[Run(i).date].exists

\* C2: a summarize_day run that failed in the staging read, the provider call
\* or the note write ends in an error, has not cleared the staging log, and
\* every entry staged before the attempt is still read from the log, in order.
C2_FailureKeepsStaging ==
    \A i \in Running :
        Run(i).failedAt \in {"read", "provider", "write"} =>
            /\ Run(i).pc = "err"
            /\ ~Run(i).cleared
            /\ IsPrefix(Run(i).staged0,
                        read_staging_events(staging[Run(i).date]))

C2_Witness ==
    \E i \in Running :
        /\ Run(i).failedAt = "write" /\ Run(i).pc = "err"
        /\ Len(Run(i).staged0) = 2

\* C3: a stored event is missing from the staging log without having been
\* given to the provider only if it was appended after the read and before
\* the clear of a summarize_day run of its date; such a state is reachable.
C3_LostOnlyByRace ==
    \A k \in Stored :
        InStaging(k) \/ hist.fate[k] = "given" \/ hist.fate[k] = "raced"

C3_Witness ==
    \E k \in Stored : ~InStaging(k) /\ hist.fate[k] # "given"

\* C4: the clock trigger has started summarization exactly once for every
\* date on which a check saw the daily hour, and never for another date.
C4_OncePerDate ==
    \A d \in Dates :
        hist.clockStarts[d] = IF hist.hourMatched[d] THEN 1 ELSE 0

C4_Witness ==
    /\ hist.clockStarts[clock.date] = 1
    /\ clock.hour = DailyHour
    /\ sched_pc = "select" /\ runs = <<>>
    /\ clock.date = MaxDate /\ hist.clockStarts[1] = 1

\* C5: while a clock-triggered summarize_day runs, last_daily_date is already
\* the date of the run, and once the clock trigger has started a run for a
\* date no later step starts another one for that date, whether the run
\* failed or not.
C5_SetBeforeRun ==
    /\ [](\A i \in Running :
            Run(i).trigger = "clock" => last_daily_date = Run(i).date)
    /\ [][\A d \in Dates :
            hist.clockStarts[d] >= 1 =>
                hist'.clockStarts[d] = hist.clockStarts[d]]_vars

C5_Witness ==
    \E i \in Running :
        /\ Run(i).trigger = "clock" /\ Run(i).pc = "err"
        /\ clock.date = Run(i).date /\ clock.hour = DailyHour

\* C6: every manual signal is either still queued or has started one run of
\* summarize_day; a step that takes a signal starts a run for the current
\* date and leaves last_daily_date as it was, whatever its value.
C6_ManualNotDeduplicated ==
    /\ [](hist.manualSent = hist.manualRuns + manual_rx)
    /\ [][manual_rx' < manual_rx =>
            /\ hist'.manualRuns = hist.manualRuns + 1
            /\ Len(runs') = Len(runs) + 1
            /\ runs'[Len(runs')].date = clock.date
            /\ runs'[Len(runs')].pc = "read"
            /\ last_daily_date' = last_daily_date]_vars

C6_Witness ==
    \E i \in Running :
        /\ Run(i).trigger = "manual"
        /\ last_daily_date = Run(i).date
        /\ hist.manualRuns = 2
        /\ clock.date = 1

\* C7: at most one summarize_day run started by the scheduler is in flight,
\* and while one is in flight the loop is inside the branch that awaits it.
C7_OneRunAtATime ==
    /\ Len(runs) <= 1
    /\ runs # <<>> => sched_pc = "await"

C7_Witness ==
    /\ Len(runs) = 1
    /\ manual_rx > 0
    /\ clock.hour = DailyHour /\ last_daily_date # clock.date

\* C8: a summarize_day run whose read found nothing staged returns Ok without
\* a provider call, a note write or a clear; the note is as it was before.
C8_EmptyIsNoOp ==
    \A i \in Running :
        (PastRead(Run(i)) /\ Run(i).failedAt # "read" /\ Run(i).staged0 = <<>>) =>
            /\ Run(i).pc = "ok"
            /\ Run(i).calls = 0 /\ Run(i).sent = <<>>
            /\ ~Run(i).wrote /\ ~Run(i).cleared
            /\ notes[Run(i).date] = Run(i).note0

C8_Witness ==
    \E i \in Running :
        /\ Run(i).pc = "ok" /\ Run(i).staged0 = <<>>
        /\ staging[Run(i).date] = [exists |-> TRUE, content |-> <<NL>>]
        /\ Run(i).trigger = "clock"

\* C9: after a summarize_day run that succeeded on staged entries with no
\* append during the run, the note is the provider's text, the provider was
\* called once with the staged entries joined by line feeds in staging order,
\* and the staging file is absent.
C9_SuccessEffect ==
    \A i \in Running :
        (Run(i).pc = "ok" /\ Run(i).staged0 # <<>> /\ ~Run(i).raced) =>
            /\ notes[Run(i).date] = [exists |-> TRUE, content |-> Run(i).note]
            /\ Run(i).sent = <<[date |-> Run(i).date,
                                events_text |-> ExpectedText(Run(i).staged0)]>>
            /\ ~staging[Run(i).date].exists

C9_Witness ==
    \E i \in Running :
        /\ Run(i).pc = "ok" /\ Len(Run(i).staged0) = 2 /\ ~Run(i).raced
        /\ Run(i).note0.exists
        /\ Run(i).note0 # notes[Run(i).date]

\* C10: a summarize_day run that directly follows a successful run of the
\* same date on staged entries, with no append since that run's read, returns
\* Ok, makes no provider call and leaves the note as the first run wrote it.
C10_SecondRunNoOp ==
    \A i \in Running :
        (Run(i).second /\ PastRead(Run(i)) /\ Run(i).failedAt # "read") =>
            /\ Run(i).pc = "ok"
            /\ Run(i).calls = 0
            /\ ~Run(i).wrote
            /\ notes[Run(i).date] = Run(i).note0
            /\ Run(i).note0.exists

C10_Witness ==
    \E i \in Running :
        Run(i).second /\ Run(i).pc = "ok" /\ Run(i).note0.content \in NoteTexts

\* C23: every summarize_day run the scheduler awaits is followed by the loop
\* waiting in select! again with no run in flight, whether the run failed
\* or not; the return of a failed run leaves last_daily_date and the queued
\* signals as they are; a run starts only on a taken manual signal or on a
\* check that finds the daily hour on a date not yet triggered, so a failed
\* run is not started again on its own; and every manual signal sent starts
\* a run of its own (as long as the scheduler may start runs at all).
C23_BackToIdleAfterEveryRun ==
    /\ (sched_pc = "await") ~> (sched_pc = "select" /\ runs = <<>>)
    /\ \A n \in 1..MaxManual :
          (hist.manualSent >= n) ~>
              (hist.manualRuns >= n \/ hist.started >= MaxRuns)
    /\ [][Len(runs') < Len(runs) =>
            /\ sched_pc' = "select"
            /\ last_daily_date' = last_daily_date
            /\ manual_rx' = manual_rx]_vars
    /\ [][Len(runs') > Len(runs) =>
            \/ manual_rx' = manual_rx - 1
            \/ /\ ClockDue(clock.hour, last_daily_date, clock.date)
               /\ hist.clockStarts[clock.date] = 0]_vars

\* a manual run has just started while an entry that an earlier run gave to
\* the provider is still staged: the earlier run failed and has returned
C23_Witness ==
    /\ \E i \in Running : Run(i).trigger = "manual" /\ Run(i).pc = "read"
    /\ \E k \in Stored : InStaging(k) /\ hist.fate[k] = "given"
    /\ hist.clockStarts[clock.date] = 1

\* C24: a run is started for the date the clock shows at the step that
\* starts it, whichever the trigger; and for a date that has ended with no
\* run of it in flight, no step changes its staging file or its note and no
\* step starts or leaves a run of that date: what is staged for it stays.
C24_PastDatesAreLeftAlone ==
    /\ [][Len(runs') > Len(runs) =>
            runs'[Len(runs')].date = clock.date]_vars
    /\ [][\A d \in Dates :
            (d < clock.date /\ \A i \in Running : Run(i).date # d) =>
                /\ staging'[d] = staging[d]
                /\ notes'[d] = notes[d]
                /\ \A i \in 1..Len(runs') : runs'[i].date # d]_vars

\* date 1 has ended with an entry still staged that a failed run of date 1
\* gave to the provider; the clock trigger of date 2 has run and written the
\* note of date 2; the scheduler is waiting again
C24_Witness ==
    /\ clock.date = 2 /\ sched_pc = "select" /\ runs = <<>>
    /\ \E k \in Stored :
          /\ to_string(k) \in Range(read_staging_events(staging[1]))
          /\ hist.fate[k] = "given"
    /\ hist.clockStarts[2] = 1
    /\ notes[2].exists /\ ~staging[2].exists

\* the note file that holds a text; no text written, no file
NoteOf(text) ==
    IF text = "" THEN NoNote ELSE [exists |-> TRUE, content |-> text]

Entries == {<<1>>, <<2>>, <<>>, <<1, NL, 2>>}

StoreInit ==
    /\ StoreIdle
    /\ GitIdle
    /\ WalkIdle
    /\ ProvIdle
    /\ AppIdle
    /\ clock = [date |-> 1, hour |-> DailyHour - 1]
    /\ \E today \in {NoFile, [exists |-> TRUE, content |-> <<NL>>]} :
         staging = [d \in Dates |-> IF d = 1 THEN today ELSE NoFile]
    /\ \E note \in {NoNote, [exists |-> TRUE, content |-> "n1"]} :
         notes = [d \in Dates |-> IF d = 1 THEN note ELSE NoNote]
    /\ last_daily_date = NoDate
    /\ manual_rx = 0
    /\ sched_pc = "select"
    /\ runs = <<>>
    /\ nextEvent = 1
    /\ hist = [staged |-> [d \in Dates |-> <<>>],
               fate |-> [k \in 1..MaxEvents |-> "none"],
               clockStarts |-> [d \in Dates |-> 0],
               hourMatched |-> [d \in Dates |-> FALSE],
               manualSent |-> 0, manualRuns |-> 0, started |-> 0,
               cleanDate |-> NoDate,
               wroteNote |-> [d \in Dates |-> ""],
               goodNote |-> [d \in Dates |-> ""]]

StoreFrame ==
    UNCHANGED <<clock, notes, last_daily_date, manual_rx, sched_pc, runs,
                nextEvent, hist, gitVars, walkVars, provVars, appVars>>

\* the entries in store_log, over the dates 1..d
RECURSIVE LoggedUpTo(_)
LoggedUpTo(d) == IF d = 0 THEN 0 ELSE Len(store_log[d]) + LoggedUpTo(d - 1)

\* storage::append_staging_event(date, event)
StoreAppend ==
    /\ \E d \in Dates, e \in Entries, ok \in BOOLEAN :
         /\ LoggedUpTo(MaxDate) < MaxAppends
         /\ store_ret' = [op |-> "append", date |-> d, ok |-> ok,
                          value |-> <<>>, expected |-> <<>>,
                          existed |-> staging[d].exists, fault |-> ~ok]
         /\ IF ok
            THEN /\ staging' = [staging EXCEPT
                                  ![d] = append_staging_event(@, e)]
                 /\ store_log' = [store_log EXCEPT ![d] = Append(@, e)]
            ELSE UNCHANGED <<staging, store_log>>
    /\ StoreFrame

\* storage::read_staging_events(date)
StoreRead ==
    /\ \E d \in Dates, fault \in BOOLEAN :
         LET res == read_result(staging[d], fault)
         IN  store_ret' = [op |-> "read", date |-> d, ok |-> res.ok,
                           value |-> res.value, expected |-> store_log[d],
                           existed |-> staging[d].exists, fault |-> fault]
    /\ UNCHANGED <<staging, store_log>>
    /\ StoreFrame

\* storage::clear_staging(date)
StoreClear ==
    /\ \E d \in Dates, fault \in BOOLEAN :
         LET res == clear_result(staging[d], fault)
         IN  /\ store_ret' = [op |-> "clear", date |-> d, ok |-> res.ok,
                              value |-> <<>>, expected |-> <<>>,
                              existed |-> staging[d].exists, fault |-> fault]
             /\ staging' = [staging EXCEPT ![d] = res.file]
             /\ store_log' = [store_log EXCEPT
                                ![d] = IF res.ok THEN <<>> ELSE @]
    /\ StoreFrame

StoreNext ==
    \/ StoreAppend
    \/ StoreRead
    \/ StoreClear

StoreSpec == StoreInit /\ [][StoreNext]_vars

\* a non-empty text of one line
SingleLine(e) == e # <<>> /\ NL \notin Range(e)

\* C13: a read of a date returns exactly the entries appended to that date
\* since its file was last absent or cleared, each once and in the order of
\* the appends, when every one of them is a non-empty single line.
C13_AppendReadRoundTrip ==
    (/\ store_ret.op = "read" /\ store_ret.ok
     /\ \A j \in 1..Len(store_ret.expected) :
            SingleLine(store_ret.expected[j])) =>
        store_ret.value = store_ret.expected

C13_Witness ==
    /\ store_ret.op = "read" /\ store_ret.ok
    /\ store_ret.expected = << <<2>>, <<1>>, <<2>> >>
    /\ store_ret.value = store_ret.expected

\* C14: read and clear of a date whose file is absent succeed, the read with
\* an empty list and the clear changing nothing; after a successful clear
\* the file of the date is absent (so a second clear and a following read
\* find nothing); a clear changes no note and no file of another date.
C14_AbsentIsNotAnError ==
    /\ []((store_ret.op \in {"read", "clear"} /\ ~store_ret.existed
             /\ ~store_ret.fault) =>
            (store_ret.ok /\ store_ret.value = <<>>))
    /\ []((store_ret.op = "clear" /\ store_ret.ok) =>
            ~staging[store_ret.date].exists)
    /\ [][store_ret'.op = "clear" =>
            /\ notes' = notes
            /\ \A d \in Dates : d # store_ret'.date => staging'[d] = staging[d]
            /\ ~store_ret'.existed => staging' = staging]_vars

C14_Witness ==
    /\ store_ret.op = "clear" /\ store_ret.ok /\ ~store_ret.existed
    /\ \E d \in Dates : d # store_ret.date /\ store_log[d] # <<>>
    /\ notes[1].exists

\* -------------------------------------------------------------- git watcher
\* A path is the sequence of its components.
Hashes == 1..MaxHash

\* get_recent_commits, the Ok results: the hashes of at most MaxFetch
\* commits, newest first, no commit twice (subject, author and date of a
\* commit are fixed by its hash and are left out)
Logs ==
    {c \in UNION {[1..n -> Hashes] : n \in 0..MaxFetch} :
        \A i, j \in 1..Len(c) : i # j => c[i] # c[j]}

\* line 146: repo.join(".git").join("refs").join("heads")
refs_path(repo) == repo \o <<".git", "refs", "heads">>

\* Path::starts_with compares whole components
starts_with(path, base) == IsPrefix(base, path)

\* repo_from_event_path: Some(first known repo the path starts with) as a
\* one-element sequence, None as the empty one
repo_from_event_path(path, known_repos) ==
    LET hits == {i \in 1..Len(known_repos) : starts_with(path, known_repos[i])}
    IN  IF hits = {} THEN <<>>
        ELSE <<known_repos[CHOOSE i \in hits : \A j \in hits : i <= j]>>

\* lines 166-175: the repos of a batch, each once, in order of first event
RECURSIVE changed_repos_from(_, _, _)
changed_repos_from(events, known_repos, acc) ==
    IF events = <<>> THEN acc
    ELSE LET repo == repo_from_event_path(Head(events), known_repos)
         IN  changed_repos_from(Tail(events), known_repos,
                 IF repo # <<>> /\ repo[1] \notin Range(acc)
                 THEN Append(acc, repo[1]) ELSE acc)

\* variant: the cursor is not consulted
all_commits(commits, last) == commits

\* lines 181-202: the commits sent, in order: those walked before the break
\* at the first commit whose hash is the cursor
RECURSIVE new_commits(_, _)
new_commits(commits, last) ==
    IF commits = <<>> THEN <<>>
    ELSE IF last # NoHash /\ Head(commits) = last THEN <<>>
    ELSE <<Head(commits)>> \o new_commits(Tail(commits), last)

\* variant: last_seen is never written
cursor_kept(commits, last) == last

\* lines 203-205: last_seen after the pass
cursor_after(commits, last) ==
    IF commits # <<>> THEN commits[1] ELSE last

\* the repos found by discover_repos in start(): two sibling repositories
repos_clone == << <<"a">>, <<"b">> >>
KnownRepos == Range(repos_clone)

\* a debounced event: a changed file below the watched refs path of a repo
ref_event(repo) == refs_path(repo) \o <<"main">>

\* what the debouncer callback sends: Ok(events) or Err(_)
Batches ==
    { [ok |-> TRUE, events |-> <<ref_event(<<"a">>)>>],
      [ok |-> TRUE, events |-> <<ref_event(<<"b">>), ref_event(<<"a">>),
                                 ref_event(<<"b">>)>>],
      [ok |-> FALSE, events |-> <<>>] }

\* get_recent_commits, the Result
Fetches ==
    {[ok |-> TRUE, commits |-> c] : c \in Logs}
        \cup {[ok |-> FALSE, commits |-> <<>>]}

\* variant: a new task takes over the cursors of the task spawned before it
TaskWithOldCursors ==
    [pc |-> "top", rx |-> <<>>,
     last_seen |-> IF tasks = <<>> THEN [r \in KnownRepos |-> NoHash]
                   ELSE tasks[Len(tasks)].last_seen,
     prev |-> [r \in KnownRepos |-> <<>>],
     sent |-> [r \in KnownRepos |-> {}],
     stopped |-> FALSE, late |-> 0]

\* line 160 and the loop's position; prev, sent, stopped and late are
\* history: the list fetched by the task's previous pass over each repo (as
\* a sequence of zero or one list), the hashes it has sent for each repo,
\* whether stop() was called while it ran, and the batches it has received
\* since then
NewTask ==
    [pc |-> "top", rx |-> <<>>,
     last_seen |-> [r \in KnownRepos |-> NoHash],
     prev |-> [r \in KnownRepos |-> <<>>],
     sent |-> [r \in KnownRepos |-> {}],
     stopped |-> FALSE, late |-> 0]

GitFrame == UNCHANGED <<schedVars, storeVars, walkVars, provVars, appVars>>

\* GitWatcher::start; it returns early, the flag already set, when no repo
\* is found or the debouncer cannot be created
GitStart ==
    /\ running' = TRUE
    /\ \E outcome \in {"spawned", "returned"} :
         IF outcome = "spawned" /\ Len(tasks) < MaxStarts
         THEN /\ tasks' = Append(tasks, NewTask)
              /\ debouncer' = Len(tasks) + 1
         ELSE UNCHANGED <<tasks, debouncer>>
    /\ UNCHANGED last_diff
    /\ GitFrame

\* GitWatcher::stop
GitStop ==
    /\ running' = FALSE
    /\ debouncer' = NoTask
    /\ tasks' = [t \in 1..Len(tasks) |->
                   IF tasks[t].pc # "done"
                   THEN [tasks[t] EXCEPT !.stopped = TRUE] ELSE tasks[t]]
    /\ UNCHANGED last_diff
    /\ GitFrame

\* lines 139-141: the debouncer's callback sends a batch to its task
Notify ==
    /\ debouncer # NoTask
    /\ tasks[debouncer].pc # "done"
    /\ last_diff.batches < MaxBatches
    /\ \E batch \in Batches :
         tasks' = [tasks EXCEPT ![debouncer].rx = Append(@, batch)]
    /\ last_diff' = [last_diff EXCEPT !.batches = @ + 1]
    /\ UNCHANGED <<running, debouncer>>
    /\ GitFrame

\* line 162: while running.load(..)
LoopTop(t) ==
    /\ tasks[t].pc = "top"
    /\ tasks' = [tasks EXCEPT ![t].pc = IF running THEN "recv" ELSE "done"]
    /\ UNCHANGED <<running, debouncer, last_diff>>
    /\ GitFrame

\* lines 177-215, one repo of the batch: what the pass sends and what it
\* leaves in last_seen. The receiver of tx lives as long as a sender does
\* (watchers/mod.rs 40-58), so tx.send succeeds.
pass_over(task, repo, fetch) ==
    LET last == task.last_seen[repo]
    IN  [repo |-> repo, ok |-> fetch.ok, before |-> last,
         commits |-> fetch.commits,
         sent |-> IF fetch.ok THEN new_commits(fetch.commits, last)
                  ELSE <<>>,
         after |-> IF fetch.ok THEN cursor_after(fetch.commits, last)
                   ELSE last,
         prev |-> task.prev[repo], sent_before |-> task.sent[repo]]

\* lines 163-221: debounce_rx.recv().await and one turn of the loop body.
\* The passes over the batch's repos read and write only the task's own
\* last_seen, so the turn is one step. recv() returns None once the channel
\* is empty and its sender is dropped.
Recv(t) ==
    /\ tasks[t].pc = "recv"
    /\ IF tasks[t].rx # <<>>
       THEN LET batch == Head(tasks[t].rx)
                repos == IF ~batch.ok THEN <<>>
                         ELSE changed_repos_from(batch.events, repos_clone,
                                                 <<>>)
            IN  \E fetch \in [Range(repos) -> Fetches] :
                     LET pass(r) == pass_over(tasks[t], r, fetch[r])
                         did(r) == r \in Range(repos) /\ fetch[r].ok
                    IN  /\ tasks' = [tasks EXCEPT
                               ![t].rx = Tail(@),
                               ![t].pc = "top",
                               ![t].late = IF tasks[t].stopped
                                           THEN @ + 1 ELSE @,
                               ![t].last_seen =
                                   [r \in KnownRepos |->
                                      IF did(r) THEN pass(r).after ELSE @[r]],
                               ![t].prev =
                                   [r \in KnownRepos |->
                                      IF did(r) THEN <<fetch[r].commits>>
                                      ELSE @[r]],
                               ![t].sent =
                                   [r \in KnownRepos |->
                                      IF did(r)
                                      THEN @[r] \cup Range(pass(r).sent)
                                      ELSE @[r]]]
                         /\ last_diff' =
                               IF repos = <<>> THEN last_diff
                               ELSE [batches |-> last_diff.batches,
                                     task |-> t,
                                     passes |-> [i \in 1..Len(repos) |->
                                                   pass(repos[i])]]
       ELSE /\ debouncer # t
            /\ tasks' = [tasks EXCEPT ![t].pc = "done"]
            /\ UNCHANGED last_diff
    /\ UNCHANGED <<running, debouncer>>
    /\ GitFrame

GitNext ==
    \/ GitStart
    \/ GitStop
    \/ Notify
    \/ \E t \in 1..Len(tasks) : LoopTop(t)
    \/ \E t \in 1..Len(tasks) : Recv(t)

GitInit ==
    SchedIdle /\ StoreIdle /\ GitIdle /\ WalkIdle /\ ProvIdle /\ AppIdle

GitSpec == GitInit /\ [][GitNext]_vars

\* the passes of the last turn, and the cursor each of them left
Passes == {last_diff.passes[i] : i \in 1..Len(last_diff.passes)}
CursorNow(p) == tasks[last_diff.task].last_seen[p.repo]

\* C11: a pass over a repo that has no cursor sends every fetched commit,
\* in the fetched (newest first) order, and leaves the cursor at the newest
\* fetched hash.
C11_FirstPassSendsAll ==
    \A p \in Passes :
        (p.ok /\ p.before = NoHash) =>
            /\ p.sent = p.commits
            /\ p.commits # <<>> => CursorNow(p) = p.commits[1]

C11_Witness ==
    \E p \in Passes :
        /\ p.ok /\ p.before = NoHash
        /\ Len(p.commits) = MaxFetch /\ p.sent = p.commits
        /\ CursorNow(p) = p.commits[1]

\* C12: a pass that fetches the list its task fetched in the previous pass
\* over the repo sends nothing and leaves the cursor as it was; after every
\* pass over a non-empty list the cursor is the newest fetched hash, also
\* when nothing was sent.
C12_SameListSendsNothing ==
    \A p \in Passes :
        /\ (p.ok /\ p.prev = <<p.commits>>) =>
              (p.sent = <<>> /\ CursorNow(p) = p.before)
        /\ (p.ok /\ p.commits # <<>>) => CursorNow(p) = p.commits[1]

C12_Witness ==
    \E p \in Passes :
        /\ p.ok /\ p.prev = <<p.commits>> /\ Len(p.commits) = MaxFetch
        /\ p.sent = <<>> /\ CursorNow(p) = p.commits[1]

\* C17: a consumer task receives at most one batch after stop() was called.
C17_AtMostOneBatchAfterStop ==
    \A t \in 1..Len(tasks) : tasks[t].late <= 1

\* C20: in a pass whose cursor is in the fetched list, every commit at or
\* after the cursor was sent by an earlier pass of the same task.
C20_AtOrAfterCursorWasSent ==
    \A p \in Passes :
        (p.ok /\ p.before # NoHash) =>
            \A i, j \in 1..Len(p.commits) :
                (p.commits[i] = p.before /\ j >= i) =>
                    p.commits[j] \in p.sent_before

\* C21: no pass sends a commit that an earlier pass of the same task over
\* the same repo has sent.
C21_NoCommitSentTwice ==
    \A p \in Passes : Range(p.sent) \cap p.sent_before = {}

\* C22: a task starts with no cursor for any repo, so its first pass over a
\* repo sends every fetched commit, whatever the tasks started before it
\* have sent, and then holds the newest fetched hash as cursor.
C22_RestartSendsAllAgain ==
    /\ \A t \in 1..Len(tasks), r \in KnownRepos :
          tasks[t].prev[r] = <<>> => tasks[t].last_seen[r] = NoHash
    /\ \A p \in Passes :
          (p.ok /\ p.prev = <<>>) =>
              /\ p.before = NoHash
              /\ p.sent = p.commits
              /\ p.commits # <<>> => CursorNow(p) = p.commits[1]

C22_Witness ==
    /\ last_diff.task = 2
    /\ \E p \in Passes :
          /\ p.ok /\ p.prev = <<>>
          /\ Len(p.sent) = MaxFetch
          /\ Range(p.sent) \cap tasks[1].sent[p.repo] # {}
          /\ CursorNow(p) = p.commits[1]

\* ---------------------------------------------------------- repo discovery
\* Directories are paths relative to the first watch path, <<>>.
\* variant: no directory name is skipped
NothingExcluded == {}

\* line 67: the names walk_for_repos does not look into
Excluded == {"node_modules", "target", ".git"}

DirNames == {"p", "q", "node_modules", "target", ".git"}

\* the order in which read_dir yields the entries of a directory
Orders ==
    { <<".git", "node_modules", "p", "q", "target">>,
      <<"target", "q", "p", "node_modules", ".git">> }

\* config.sources.git.watch_paths; a path that is no directory is skipped
WatchPathLists == { << <<>> >>, << <<"p">>, <<>> >>, << <<"q", "p">> >> }

\* walk_for_repos, the repos pushed, in push order; a directory that cannot
\* be read (line 59) contributes nothing
RECURSIVE walk_for_repos(_, _, _, _, _)
RECURSIVE walk_entries(_, _, _, _, _, _)
walk_for_repos(dirs, unreadable, order, dir, depth) ==
    IF depth = 0 \/ dir \in unreadable THEN <<>>
    ELSE walk_entries(dirs, unreadable, order, dir, depth, 1)

\* lines 61-74: the loop over the entries, from the i-th on
walk_entries(dirs, unreadable, order, dir, depth, i) ==
    IF i > Len(order) THEN <<>>
    ELSE LET path == Append(dir, order[i])
             pushed ==
                 IF path \notin dirs \/ order[i] \in Excluded THEN <<>>
                 ELSE (IF Append(path, ".git") \in dirs
                       THEN <<path>> ELSE <<>>)
                      \o walk_for_repos(dirs, unreadable, order, path,
                                        depth - 1)
         IN  pushed \o walk_entries(dirs, unreadable, order, dir, depth,
                                    i + 1)

\* discover_repos, from the i-th watch path on
RECURSIVE discover_repos(_, _, _, _, _, _)
discover_repos(dirs, unreadable, order, watch_paths, scan_depth, i) ==
    IF i > Len(watch_paths) THEN <<>>
    ELSE (IF watch_paths[i] \in dirs
          THEN walk_for_repos(dirs, unreadable, order, watch_paths[i],
                              scan_depth)
          ELSE <<>>)
         \o discover_repos(dirs, unreadable, order, watch_paths, scan_depth,
                           i + 1)

WalkFrame == UNCHANGED <<schedVars, storeVars, gitVars, provVars, appVars>>

\* the user creates a directory, before the watcher is started
Mkdir ==
    /\ ~found.done
    /\ Cardinality(tree) <= MaxDirs
    /\ \E dir \in tree, name \in DirNames :
         /\ Append(dir, name) \notin tree
         /\ tree' = tree \cup {Append(dir, name)}
    /\ UNCHANGED <<found, mapped>>
    /\ WalkFrame

\* GitWatcher::start line 126: discover_repos(&self.config)
Discover ==
    /\ ~found.done
    /\ \E watch_paths \in WatchPathLists, scan_depth \in 0..MaxDepth,
          order \in Orders, unreadable \in {{}} \cup {{d} : d \in tree} :
         found' = [done |-> TRUE, watch_paths |-> watch_paths,
                   scan_depth |-> scan_depth, order |-> order,
                   unreadable |-> unreadable,
                   repos |-> discover_repos(tree, unreadable, order,
                                            watch_paths, scan_depth, 1)]
    /\ UNCHANGED <<tree, mapped>>
    /\ WalkFrame

\* the batches the debouncer can send: events below the watched refs paths
WatchedEvents == {ref_event(found.repos[i]) : i \in 1..Len(found.repos)}

\* GitWatcher::start lines 164-175 on one batch, with the discovered repos
MapBatch ==
    /\ found.done
    /\ \E n \in 1..MaxBatchLen : \E events \in [1..n -> WatchedEvents] :
         mapped' = [done |-> TRUE, events |-> events,
                    changed_repos |->
                        changed_repos_from(events, found.repos, <<>>)]
    /\ UNCHANGED <<tree, found>>
    /\ WalkFrame

WalkNext == Mkdir \/ Discover \/ MapBatch

WalkInit ==
    SchedIdle /\ StoreIdle /\ GitIdle /\ WalkIdle /\ ProvIdle /\ AppIdle

WalkSpec == WalkInit /\ [][WalkNext]_vars

\* the directories the claim describes: they hold a .git directory and lie
\* 1..scan_depth levels below a watch path that is a directory, no
\* component of the way down - the directory's own name included - being
\* node_modules, target or .git
ReposBelowWatchPaths ==
    {dir \in tree :
        /\ Append(dir, ".git") \in tree
        /\ \E i \in 1..Len(found.watch_paths) :
             LET w == found.watch_paths[i]
             IN  /\ w \in tree
                 /\ IsPrefix(w, dir)
                 /\ Len(dir) - Len(w) \in 1..found.scan_depth
                 /\ \A k \in (Len(w) + 1)..Len(dir) :
                      dir[k] \notin {"node_modules", "target", ".git"}}

\* C16: when every directory can be read, discover_repos reports exactly
\* the repositories that lie at most scan_depth levels below a watch path
\* on a way that passes no node_modules, target or .git directory, nested
\* repositories included.
C16_DiscoveryFindsReposUpToDepth ==
    (found.done /\ found.unreadable = {}) =>
        Range(found.repos) = ReposBelowWatchPaths

C16_Witness ==
    /\ found.done /\ found.unreadable = {}
    /\ found.scan_depth = 2
    /\ {<<"p">>, <<"p", "q">>} \subseteq Range(found.repos)
    /\ Range(found.repos) = ReposBelowWatchPaths

\* the position of the first event of the batch below the refs path of repo
FirstEventOf(repo) ==
    LET hits == {k \in 1..Len(mapped.events) :
                    IsPrefix(refs_path(repo), mapped.events[k])}
    IN  IF hits = {} THEN 0 ELSE CHOOSE k \in hits : \A h \in hits : k <= h

\* C15: a batch is mapped to the discovered repositories whose refs path is
\* a prefix of an event's path, each once, in the order of their first
\* events.
C15_BatchMapsToReposOfRefPaths ==
    mapped.done =>
        LET out == mapped.changed_repos
        IN  /\ Range(out) =
                 {r \in Range(found.repos) : FirstEventOf(r) # 0}
            /\ \A i, j \in 1..Len(out) :
                 i < j => FirstEventOf(out[i]) < FirstEventOf(out[j])

\* ----------------------------------------------------------------- provider
\* HTTP status codes of a response
Statuses == {200, 201, 404, 500}

\* response bodies: not JSON; JSON without choices; a first choice whose
\* content is no string (<<>>); first choices with a string content
Bodies ==
    { [json |-> FALSE, choices |-> <<>>],
      [json |-> TRUE, choices |-> <<>>],
      [json |-> TRUE, choices |-> <<[content |-> <<>>]>>],
      [json |-> TRUE, choices |-> <<[content |-> <<"n1">>]>>],
      [json |-> TRUE, choices |-> <<[content |-> <<"n2">>],
                                   [content |-> <<"n1">>]>>] }

\* lines 68-69: json["choices"][0]["message"]["content"].as_str(), Some as
\* a one-element sequence
first_content(body) ==
    IF body.choices = <<>> THEN <<>> ELSE body.choices[1].content

\* OpenAICompatibleProvider::complete: the Result and the requests sent.
\* The status of the response is read nowhere.
complete(key, transport, code, body) ==
    IF ~key
    THEN [ok |-> FALSE, text |-> "", error |-> "Missing env var",
          requests |-> 0]
    ELSE IF transport # "ok"
    THEN [ok |-> FALSE, text |-> "", error |-> "Request failed",
          requests |-> 1]
    ELSE IF ~body.json
    THEN [ok |-> FALSE, text |-> "", error |-> "Failed to parse response",
          requests |-> 1]
    ELSE IF first_content(body) = <<>>
    THEN [ok |-> FALSE, text |-> "", error |-> "No content in response",
          requests |-> 1]
    ELSE [ok |-> TRUE, text |-> first_content(body)[1], error |-> "none",
          requests |-> 1]

ProvFrame == UNCHANGED <<schedVars, storeVars, gitVars, walkVars, appVars>>

\* the process environment: the key variable is set or unset
SetEnv ==
    /\ env' = ~env
    /\ UNCHANGED <<sent, reply>>
    /\ ProvFrame

\* a call of complete(); what the server does is the environment's choice,
\* and is recorded only as far as the call gets
Complete ==
    /\ sent < MaxRequests
    /\ \E transport \in {"ok", "failed"}, st \in Statuses, body \in Bodies :
         LET res == complete(env, transport, st, body)
             met == env /\ transport = "ok"
         IN  /\ ~met => (st = 200 /\ body = [json |-> FALSE, choices |-> <<>>])
             /\ reply' = [called |-> TRUE, key |-> env,
                          transport |-> IF env THEN transport ELSE "none",
                          status |-> IF met THEN st ELSE 0,
                          body |-> IF met THEN body ELSE <<>>,
                          requests |-> res.requests,
                          ok |-> res.ok, text |-> res.text,
                          error |-> res.error]
             /\ sent' = sent + res.requests
    /\ UNCHANGED env
    /\ ProvFrame

ProvNext == SetEnv \/ Complete

ProvInit ==
    SchedIdle /\ StoreIdle /\ GitIdle /\ WalkIdle /\ ProvIdle /\ AppIdle

ProvSpec == ProvInit /\ [][ProvNext]_vars

\* C18: complete returns a Provider error, never a text, when the key
\* variable is absent (and then sends nothing), when the transport fails,
\* when the status is not 2xx, and when the first choice has no content; a
\* call sends at most one request.
C18_ErrorOnEveryFailure ==
    reply.called =>
        /\ reply.requests <= 1
        /\ ~reply.key => (~reply.ok /\ reply.requests = 0)
        /\ reply.transport = "failed" => ~reply.ok
        /\ (reply.transport = "ok" /\ reply.status \div 100 # 2) => ~reply.ok
        /\ (reply.transport = "ok" /\ first_content(reply.body) = <<>>) =>
              ~reply.ok

\* ---------------------------------------------------------------- app state
\* commands::get_status: a copy of the fields of the managed AppState. No
\* function of the crate writes these fields after AppState::new.
get_status ==
    /\ status' = [called |-> TRUE,
                  watchers_running |-> app_state.watchers_running,
                  buffered_events |-> app_state.buffered_events,
                  last_summarized |-> app_state.last_summarized]
    /\ UNCHANGED <<schedVars, storeVars, gitVars, walkVars, provVars,
                   app_state>>

\* lib.rs run: the scheduler and the receive loop run, run_all starts the
\* git watcher, the presentation layer asks for the status
AppNext ==
    \/ Next
    \/ GitStart
    \/ get_status

AppSpec == Init /\ [][AppNext]_vars

\* C19: get_status reports watchers_running true exactly when the git
\* watcher is started, and as last_summarized the date of the summarization
\* that has just succeeded; it changes nothing but its result.
C19_StatusIsActualState ==
    [][status' # status =>
         /\ status'.watchers_running = running
         /\ \A i \in Running :
              (Run(i).pc = "ok" /\ Run(i).wrote) =>
                  status'.last_summarized = Run(i).date
         /\ UNCHANGED <<schedVars, gitVars, app_state>>]_vars

====
